---- MODULE Spec2Model ----
(***************************************************************************)
(* Model of the headline layout engine (src/src/imgeditor.py) and of the   *)
(* pan-and-scan video engine (src/video_generator.py).                     *)
(*                                                                         *)
(* Strings are sequences of one-character strings.  Python indices are     *)
(* 0-based, TLA+ sequences 1-based: Python's s[i] is s[i + 1] here.        *)
(* Glyph advances are integers (one unit = one advance quantum of the      *)
(* font library); the float products of the code are kept exact by         *)
(* scaling both sides of a comparison by 100.                              *)
(***************************************************************************)
EXTENDS Integers, Sequences, FiniteSets, TLC

VARIABLES
    \* ---- text layout (create_composite_image / wrap_text_with_highlights)
    pc,                      \* position in the layout pass
    headline,                \* the headline, a sequence of characters
    highlight,               \* the highlight string
    available_width,         \* pixels left for text
    max_width,               \* width budget of the wrap engine, times 100
    highlight_mask,          \* one boolean per headline character
    words,                   \* text.split()
    word_index,              \* 1-based index of the next word of the for loop
    current_line_words,
    current_line_highlights,
    char_position,
    lines,                   \* the lines emitted so far: <<line_text, highlights>>
    \* ---- video (generate_video_from_url / make_pan_scan_video)
    vpc,                     \* position in the video request
    entry,                   \* "api": through the HTTP endpoint, "direct": a direct call
    direction,
    duration_in,             \* the duration the caller supplied
    duration,                \* the engine's local `duration`
    fps,
    audio_path,              \* TRUE when an audio file is given
    audio_probe,             \* what get_audio_duration returns for it
    out_w, out_h,
    zoom_start, zoom_end,
    ease_in_out,
    cover,                   \* W, H and the pan ranges of the oversized background
    total_frames,
    frame_num,
    t_frac,                  \* the time fraction handed to the transform harness
    frames,                  \* the frames generated so far
    encoded,                 \* the frame list handed to the encoder
    logo_found,              \* TRUE when a default logo file of the video path opens
    text_overlay,            \* the RGBA overlay of the video
    overlay_renders,         \* calls of create_text_overlay so far
    output_path,             \* where the video is to be written
    ffmpeg,                  \* what running ffmpeg gives: "ok", "error" or "missing"
    encoder_ok,              \* FALSE when imageio.mimsave raises
    files,                   \* the files that exist: path -> content
    response,                \* status of the HTTP response, "none" before it
    \* ---- image variants (create_composite_image)
    cpc,                     \* position in create_composite_image
    formato,                 \* the formato argument, cut at its commas
    for_usar,                \* the formats to render, in order
    frm_index,               \* 1-based index of `frm` in for_usar
    base_w, base_h,          \* size of base_image
    logo_image,              \* "none", "caller" or "default"
    default_logo,            \* TRUE when El_Dia.png can be opened
    images,                  \* the bitmaps created by the call, by identity
    img,                     \* the bitmap the name `img` is bound to
    width, height,
    bar_width,
    ret,                     \* format name -> bitmap identity
    \* ---- the width of one line, with a font whose advances are fractional
    mpc,                     \* position in the measurement of the line
    font_scale,              \* pixels per advance unit at the font size in use
    the_line,                \* <<line_text, line_highlights>>
    wrap_width,              \* candidate_width when the wrap accepted the line
    line_box,                \* what the layout computed and drew for the line
    \* ---- the 4:5 crop box
    kpc,                     \* position in the computation of the crop box
    img_W, img_H,            \* W, H: the size of the image
    roi,                     \* <<x, y, w, h>> as passed by the caller
    anchor,                  \* "center", "top" or "topleft"
    crop_box,                \* <<cx, cy, tw, th>> as returned
    \* ---- the /generate-image endpoint
    ipc,                     \* position in the handler
    logo_upload,             \* the `logo` part: "none", "image" or "garbage"
    logo_url,                \* what logo_url serves: "none", "image", "garbage", "unreachable"
    logo_data,               \* the local logo_data: "unbound", "upload" or "download"
    image_response           \* status of the HTTP response, "none" before it

textVars == <<pc, headline, highlight, available_width, max_width, highlight_mask,
              words, word_index, current_line_words, current_line_highlights,
              char_position, lines>>

fsVars == <<output_path, ffmpeg, encoder_ok, files, response>>

videoVars == <<vpc, entry, direction, duration_in, duration, fps, audio_path, audio_probe,
               out_w, out_h, zoom_start, zoom_end, ease_in_out, cover, total_frames,
               frame_num, t_frac, frames, encoded, logo_found, text_overlay,
               overlay_renders, fsVars>>

compVars == <<cpc, formato, for_usar, frm_index, base_w, base_h, logo_image,
              default_logo, images, img, width, height, bar_width, ret>>

measureVars == <<mpc, font_scale, the_line, wrap_width, line_box>>

cropVars == <<kpc, img_W, img_H, roi, anchor, crop_box>>

logoVars == <<ipc, logo_upload, logo_url, logo_data, image_response>>

otherVars == <<measureVars, cropVars, logoVars>>

vars == <<textVars, videoVars, compVars, otherVars>>

----------------------------------------------------------------------------
(* Bounds of the model *)

MaxLen == 5          \* longest headline explored exhaustively
MaxHighlightLen == 2 \* longest highlight explored exhaustively

Alphabet == {"a", "b", " "}

\* str.split() splits on these
Whitespace == {" "}

\* Widths handed to the layout; none is a multiple of 23, so that
\* candidate_width * 1.15 = available_width * 0.85 has no exact tie
AvailWidths == {3, 7, 10, 14}

RECURSIVE StringsUpTo(_)
StringsUpTo(n) ==
    IF n = 0 THEN {<<>>}
    ELSE LET shorter == StringsUpTo(n - 1)
         IN  shorter \cup {Append(s, c) : s \in {t \in shorter : Len(t) = n - 1}, c \in Alphabet}

----------------------------------------------------------------------------
(* Python string primitives *)

\* sub occurs in text at 0-based offset s
OccursAt(text, sub, s) ==
    /\ s >= 0
    /\ s + Len(sub) <= Len(text)
    /\ \A k \in 1..Len(sub) : text[s + k] = sub[k]

\* `sub in text`
Contains(text, sub) == \E s \in 0..Len(text) : OccursAt(text, sub, s)

\* str.rfind: the LAST occurrence (a mutation of Find)
FindLast(text, sub, start) ==
    LET hits == {s \in start..Len(text) : OccursAt(text, sub, s)}
    IN  IF hits = {} THEN -1 ELSE CHOOSE s \in hits : \A t \in hits : t <= s

\* text.find(sub, start): the lowest offset >= start where sub occurs, else -1
Find(text, sub, start) ==
    LET hits == {s \in start..Len(text) : OccursAt(text, sub, s)}
    IN  IF hits = {} THEN -1 ELSE CHOOSE s \in hits : \A t \in hits : s <= t

\* text.split(): maximal runs of non-whitespace characters, in order
RECURSIVE SplitFrom(_, _, _, _)
SplitFrom(text, i, cur, acc) ==
    IF i > Len(text) THEN (IF cur = <<>> THEN acc ELSE Append(acc, cur))
    ELSE IF text[i] \in Whitespace
         THEN SplitFrom(text, i + 1, <<>>, IF cur = <<>> THEN acc ELSE Append(acc, cur))
         ELSE SplitFrom(text, i + 1, Append(cur, text[i]), acc)

Split(text) == SplitFrom(text, 1, <<>>, <<>>)

\* " ".join(ws)
RECURSIVE Join(_)
Join(ws) ==
    IF ws = <<>> THEN <<>>
    ELSE IF Len(ws) = 1 THEN ws[1]
    ELSE ws[1] \o <<" ">> \o Join(Tail(ws))

\* lst[i] with Python's negative indices
PyIndex(lst, i) == IF i >= 0 THEN lst[i + 1] ELSE lst[Len(lst) + i + 1]

----------------------------------------------------------------------------
(* Glyph metrics: draw.textlength(char, font) *)

NarrowGlyphs == {" ", "i", "l", "t", "r", "f", "j", ":", "I", "1", ".", ","}
WideGlyphs == {"m", "w", "M", "W", "b"}

RegularAdvance(c) == IF c \in NarrowGlyphs THEN 1 ELSE IF c \in WideGlyphs THEN 3 ELSE 2

\* the bold face is one unit wider on every glyph but the space
BoldAdvance(c) == IF c = " " THEN 1 ELSE RegularAdvance(c) + 1

textlength(c, font) == IF font = "bold" THEN BoldAdvance(c) ELSE RegularAdvance(c)

RECURSIVE calculate_real_width(_, _)
calculate_real_width(text_str, highlights_list) ==
    IF text_str = <<>> THEN 0
    ELSE LET i == Len(text_str) - 1
             is_highlighted == i < Len(highlights_list) /\ highlights_list[i + 1]
             char_font == IF is_highlighted THEN "bold" ELSE "regular"
         IN  textlength(text_str[i + 1], char_font)
             + calculate_real_width(SubSeq(text_str, 1, i), highlights_list)

----------------------------------------------------------------------------
(* Highlight mask builder *)

\* highlight_mask: true on the span of the first occurrence of the highlight
\* the mask built without the test `highlight and highlight in headline`: a
\* highlight that is not found gives find() = -1, and Python's index -1 is
\* the last character (a mutation of BuildHighlightMask)
BuildHighlightMaskUnguarded(head, hl) ==
    [i \in 1..Len(head) |->
        LET highlight_start == Find(head, hl, 0)
            highlight_end == highlight_start + Len(hl)
        IN  \E j \in highlight_start..(highlight_end - 1) :
                IF j >= 0 THEN j = i - 1 ELSE Len(head) + j = i - 1]

BuildHighlightMask(head, hl) ==
    [i \in 1..Len(head) |->
        /\ hl # <<>>
        /\ Contains(head, hl)
        /\ LET highlight_start == Find(head, hl, 0)
               highlight_end == highlight_start + Len(hl)
           IN  highlight_start <= i - 1 /\ i - 1 < highlight_end]

----------------------------------------------------------------------------
(* The wrap engine, one iteration of `for word in words` at a time *)

wrap_factor_pct == 85

\* available_width * wrap_factor, times 100
WrapBudget(avail) == avail * wrap_factor_pct

wrap_factor_vertical_pct == 90

\* wrap_factor = 0.90 if frm == "instragram" else 0.85, times 100; the name
\* compared with is spelled as in the source
WrapFactor(frm) == IF frm = "instragram" THEN wrap_factor_vertical_pct ELSE wrap_factor_pct

\* the frm of the running iteration of `for frm in for_usar`; the wrap
\* harness stands for an iteration of the horizontal format
CurrentFrm == IF cpc = "text" THEN for_usar[frm_index] ELSE "facebook"

safety_margin_pct == 115

\* a safety margin of 50% instead of 15% (a mutation of Fits)
FitsWideMargin(candidate_width, budget) == candidate_width * 150 <= budget

\* acceptance without the 15% safety margin (a mutation of Fits)
FitsNoMargin(candidate_width, budget) == candidate_width * 100 <= budget

\* candidate_width * 1.15 <= max_width
Fits(candidate_width, budget) == candidate_width * safety_margin_pct <= budget

\* the flags of the word at word_start, shifted by one character (a mutation)
WordHighlightsShifted(mask, word_start, word_end) ==
    [k \in 1..(word_end - word_start) |->
        LET i == word_start + k
        IN  IF i < Len(mask) THEN PyIndex(mask, i) ELSE FALSE]

\* word_highlight_chars: the mask entries of range(word_start, word_end)
WordHighlights(mask, word_start, word_end) ==
    [k \in 1..(word_end - word_start) |->
        LET i == word_start + k - 1
        IN  IF i < Len(mask) THEN PyIndex(mask, i) ELSE FALSE]

\* a new line that keeps only the first character of the word (a mutation of
\* StartLine)
StartLineTruncated(word) == <<SubSeq(word, 1, 1)>>

\* a new line that forgets the word that did not fit (a mutation of StartLine)
StartLineEmpty(word) == <<>>

\* current_line_words = [word]
StartLine(word) == <<word>>

\* the word looked up from the start of the text (a mutation of WordStart)
WordStartFromZero(text, word, from) == Find(text, word, 0)

\* word_start = text.find(word, char_position)
WordStart(text, word, from) == Find(text, word, from)

\* the word's flags appended with no flag for the space (a mutation of
\* ExtendHighlights)
ExtendHighlightsNoSeparator(line_highlights, word_highlight_chars) ==
    line_highlights \o word_highlight_chars

\* if current_line_highlights: current_line_highlights.append(False)
\* current_line_highlights.extend(word_highlight_chars)
ExtendHighlights(line_highlights, word_highlight_chars) ==
    (IF line_highlights # <<>> THEN Append(line_highlights, FALSE) ELSE line_highlights)
        \o word_highlight_chars

\* if current_line_words: lines.append((line_text, current_line_highlights))
EmitLine(ls, line_words, line_highlights) ==
    IF line_words # <<>> THEN Append(ls, <<Join(line_words), line_highlights>>) ELSE ls

TextInit ==
    /\ pc = "mask"
    /\ highlight_mask = <<>>
    /\ max_width = 0
    /\ words = <<>>
    /\ word_index = 1
    /\ current_line_words = <<>>
    /\ current_line_highlights = <<>>
    /\ char_position = 0
    /\ lines = <<>>

\* create_composite_image: the mask, then the call of the wrap engine
BuildMask ==
    /\ pc = "mask"
    /\ highlight_mask' = BuildHighlightMask(headline, highlight)
    /\ max_width' = available_width * WrapFactor(CurrentFrm)
    /\ words' = Split(headline)
    /\ pc' = "wrap"
    /\ UNCHANGED <<headline, highlight, available_width, word_index, current_line_words,
                   current_line_highlights, char_position, lines>>
    /\ UNCHANGED <<videoVars, compVars, otherVars>>

WrapWord ==
    /\ pc = "wrap"
    /\ word_index <= Len(words)
    /\ LET word == words[word_index]
           word_start == WordStart(headline, word, char_position)
           word_end == word_start + Len(word)
           word_highlight_chars == WordHighlights(highlight_mask, word_start, word_end)
           candidate_text ==
               IF current_line_words # <<>>
               THEN Join(Append(current_line_words, word)) ELSE word
           candidate_highlights ==
               IF current_line_words # <<>>
               THEN current_line_highlights \o <<FALSE>> \o word_highlight_chars
               ELSE word_highlight_chars
           candidate_width == calculate_real_width(candidate_text, candidate_highlights)
       IN  /\ IF Fits(candidate_width, max_width)
              THEN /\ current_line_words' = Append(current_line_words, word)
                   /\ current_line_highlights' =
                        ExtendHighlights(current_line_highlights, word_highlight_chars)
                   /\ lines' = lines
              ELSE /\ lines' = EmitLine(lines, current_line_words, current_line_highlights)
                   /\ current_line_words' = StartLine(word)
                   /\ current_line_highlights' = word_highlight_chars
           /\ char_position' = word_end
    /\ word_index' = word_index + 1
    /\ UNCHANGED <<pc, headline, highlight, available_width, max_width, highlight_mask, words>>
    /\ UNCHANGED <<videoVars, compVars, otherVars>>

\* "Add the last line" and return
WrapFlush ==
    /\ pc = "wrap"
    /\ word_index > Len(words)
    /\ lines' = EmitLine(lines, current_line_words, current_line_highlights)
    /\ pc' = "done"
    /\ UNCHANGED <<headline, highlight, available_width, max_width, highlight_mask, words,
                   word_index, current_line_words, current_line_highlights, char_position>>
    /\ UNCHANGED <<videoVars, compVars, otherVars>>

TextNext == BuildMask \/ WrapWord \/ WrapFlush

----------------------------------------------------------------------------
(* Inputs of the image-variant model *)

\* longest headline handed to create_composite_image
MaxCompositeLen == 3

\* str.lower() on the format names used below
Lower(token) ==
    CASE token = "Instagram" -> "instagram"
      [] token = "Facebook" -> "facebook"
      [] OTHER -> token

\* formato.split(',') of the formato values tried
Formatos ==
    { <<"*">>, <<"facebook">>, <<"instagram">>, <<"Instagram">>, <<"tiktok">>,
      <<"facebook", "instagram">>, <<"instagram", "facebook">>,
      <<"facebook", "facebook">> }

BaseSizes == {<<30, 20>>, <<47, 60>>}

CompositeHeadlines ==
    StringsUpTo(MaxCompositeLen) \cup {<<"a", " ", "b", " ", "a">>, <<"b", "b", " ", "a", "b">>}

CompositeHighlights == StringsUpTo(1) \cup {<<"a", "b">>}

\* width and height of the logo bitmaps
LogoSize(logo) == IF logo = "caller" THEN <<4, 2>> ELSE <<5, 3>>

----------------------------------------------------------------------------
(* create_composite_image: one bitmap per format *)

formatos_disponibles == <<"facebook", "instagram">>

\* for frm_actual in formato.split(','): keep the lowered names that are known
RECURSIVE SelectKnown(_)
SelectKnown(tokens) ==
    IF tokens = <<>> THEN <<>>
    ELSE (IF \E i \in 1..Len(formatos_disponibles) : formatos_disponibles[i] = Lower(tokens[1])
          THEN <<Lower(tokens[1])>> ELSE <<>>) \o SelectKnown(Tail(tokens))

\* if formato == "*": for_usar = formatos_disponibles
FormatsToUse(tokens) == IF tokens = <<"*">> THEN formatos_disponibles ELSE SelectKnown(tokens)

resize_to == <<1080, 1350>>

padding_x == 20
padding_y == 10
line_spacing == 8
bottom_margin == 20
logo_margin == 10
logo_scale_pct == 10

\* one paste or draw on a bitmap
Mark(kind, x, y, w, h, glyphs) ==
    [kind |-> kind, x |-> x, y |-> y, w |-> w, h |-> h, glyphs |-> glyphs]

\* a bitmap: its size, what has been drawn on it since it was created, and
\* what the bitmap it was cropped from showed at that moment
Bitmap(w, h, inherited) == [width |-> w, height |-> h, marks |-> <<>>, inherited |-> inherited]

\* crop_to_4x5(_img=img, resize_to=(1080, 1350)): a new bitmap of that size
\* holding a region of the pixels of img
crop_to_4x5(source) ==
    Bitmap(resize_to[1], resize_to[2], source.inherited \o source.marks)

\* bar_width = int(width * 0.05) for instagram, int(width * 0.07) otherwise
BarWidth(frm, w) == IF frm = "instagram" THEN (w * 5) \div 100 ELSE (w * 7) \div 100

\* available_width = width - bar_width - 10 for instagram, - 20 otherwise
AvailableWidth(frm, w, bar) == IF frm = "instagram" THEN w - bar - 10 ELSE w - bar - 20

\* if logo_image is not None: the paste branch
LogoPasted(logo, loadable) == logo # "none"

\* logo_w, logo_h and the paste at (width - logo_w - 10, 10)
LogoMark(logo, w) ==
    LET logo_w == (w * logo_scale_pct) \div 100
        logo_h == (logo_w * LogoSize(logo)[2]) \div LogoSize(logo)[1]
    IN  Mark("logo", w - logo_w - logo_margin, logo_margin, logo_w, logo_h, <<>>)

\* the else branch: Image.open of the default logo, None when it fails
LogoAfter(logo, loadable) ==
    IF logo # "none" THEN logo ELSE IF loadable THEN "default" ELSE "none"

\* img.paste(vertical_img, (0, 0), vertical_img)
WatermarkMark(bar, h) == Mark("watermark", 0, 0, bar, h, <<>>)

\* glyphs with an ascender, and glyphs with a descender
TallGlyphs ==
    {"b", "d", "f", "h", "i", "j", "k", "l", "t", "L", "P", "V", "I", "M", "W", "1", ":"}
DeepGlyphs == {"g", "j", "p", "q", "y", ","}

GlyphRise(c) == IF c \in Whitespace THEN 0 ELSE IF c \in TallGlyphs THEN 4 ELSE 3
GlyphDepth(c) == IF c \in DeepGlyphs THEN 1 ELSE 0

Max(a, b) == IF a > b THEN a ELSE b

RECURSIVE MaxRise(_)
MaxRise(text) == IF text = <<>> THEN 0 ELSE Max(GlyphRise(text[1]), MaxRise(Tail(text)))

RECURSIVE MaxDepth(_)
MaxDepth(text) == IF text = <<>> THEN 0 ELSE Max(GlyphDepth(text[1]), MaxDepth(Tail(text)))

\* bbox = draw_dummy.textbbox((0, 0), line_text, font=fonts["regular"]);
\* bbox[3] - bbox[1]
TextHeight(line_text) == MaxRise(line_text) + MaxDepth(line_text)

\* sum(h + 2 * padding_y for h in line_heights)
RECURSIVE SumBoxHeights(_)
SumBoxHeights(ls) ==
    IF ls = <<>> THEN 0
    ELSE TextHeight(ls[1][1]) + 2 * padding_y + SumBoxHeights(Tail(ls))

\* a stack height that counts one gap per line (a mutation of
\* TotalBoxesHeight)
TotalBoxesHeightGapPerLine(ls) == SumBoxHeights(ls) + line_spacing * Len(ls)

\* total_boxes_height, with line_spacing * (len(wrapped_lines) - 1)
TotalBoxesHeight(ls) == SumBoxHeights(ls) + line_spacing * (Len(ls) - 1)

\* start_y = height - total_boxes_height - 20
StartY(canvas_height, ls) == canvas_height - TotalBoxesHeight(ls) - bottom_margin

\* the next box placed without the height of the previous one (a mutation of
\* NextY)
NextYGapOnly(current_y, box_h) == current_y + line_spacing

\* current_y += box_h + line_spacing
NextY(current_y, box_h) == current_y + box_h + line_spacing

\* every character drawn with the regular font and the text colour (a
\* mutation of CharStyle)
CharStyleRegular(line_highlights, char_idx) == [font |-> "regular", color |-> "text_color"]

\* is_highlighted, color and font of the character at char_idx
CharStyle(line_highlights, char_idx) ==
    LET is_highlighted == char_idx < Len(line_highlights) /\ line_highlights[char_idx + 1]
    IN  IF is_highlighted
        THEN [font |-> "bold", color |-> "highlight_color"]
        ELSE [font |-> "regular", color |-> "text_color"]

\* for char_idx, char in enumerate(line_text): box_draw.text(...); text_x += char_width
RECURSIVE DrawChars(_, _, _, _)
DrawChars(line_text, line_highlights, char_idx, text_x) ==
    IF char_idx >= Len(line_text) THEN <<>>
    ELSE LET char == line_text[char_idx + 1]
             style == CharStyle(line_highlights, char_idx)
         IN  <<[char |-> char, font |-> style.font, color |-> style.color, x |-> text_x]>>
             \o DrawChars(line_text, line_highlights, char_idx + 1,
                          text_x + textlength(char, style.font))

\* for idx, (line_text, line_highlights) in enumerate(wrapped_lines): one box
\* per line, pasted at (x, y)
RECURSIVE DrawBoxes(_, _, _, _)
DrawBoxes(ls, current_y, bar, avail) ==
    IF ls = <<>> THEN <<>>
    ELSE LET line_text == ls[1][1]
             line_highlights == ls[1][2]
             text_w == calculate_real_width(line_text, line_highlights)
             text_h == TextHeight(line_text)
             box_w == text_w + 2 * padding_x
             box_h == text_h + 2 * padding_y
             x == bar + (avail - box_w) \div 2
             y == current_y
         IN  <<Mark("box", x, y, box_w, box_h,
                    DrawChars(line_text, line_highlights, 0, padding_x))>>
             \o DrawBoxes(Tail(ls), NextY(current_y, box_h), bar, avail)

NoRet == [f \in {} |-> 0]

\* lines 183-201: the formats to render, then the RGBA copy of the base image
SelectFormats ==
    /\ cpc = "formats"
    /\ for_usar' = FormatsToUse(formato)
    /\ IF Len(for_usar') = 0
       THEN /\ cpc' = "error"
            /\ UNCHANGED <<images, img>>
       ELSE /\ cpc' = "variant"
            /\ images' = <<Bitmap(base_w, base_h, <<>>)>>
            /\ img' = 1
    /\ UNCHANGED <<formato, frm_index, base_w, base_h, logo_image, default_logo,
                   width, height, bar_width, ret>>
    /\ UNCHANGED <<textVars, videoVars, otherVars>>

\* lines 203-298 for one frm: the crop for instagram, the sizes, the
\* watermark, the logo, the width left for the text
PrepareVariant ==
    /\ cpc = "variant"
    /\ frm_index <= Len(for_usar)
    /\ LET frm == for_usar[frm_index]
           cropped == IF frm = "instagram" THEN Append(images, crop_to_4x5(images[img]))
                      ELSE images
           target == IF frm = "instagram" THEN Len(cropped) ELSE img
           w == cropped[target].width
           h == cropped[target].height
           bar == BarWidth(frm, w)
           drawn == <<WatermarkMark(bar, h)>>
                    \o (IF LogoPasted(logo_image, default_logo)
                        THEN <<LogoMark(LogoAfter(logo_image, default_logo), w)>> ELSE <<>>)
       IN  /\ img' = target
           /\ images' = [cropped EXCEPT ![target].marks = @ \o drawn]
           /\ width' = w
           /\ height' = h
           /\ bar_width' = bar
           /\ available_width' = AvailableWidth(frm, w, bar)
    /\ logo_image' = LogoAfter(logo_image, default_logo)
    /\ cpc' = "text"
    /\ pc' = "mask"
    /\ highlight_mask' = <<>>
    /\ max_width' = 0
    /\ words' = <<>>
    /\ word_index' = 1
    /\ current_line_words' = <<>>
    /\ current_line_highlights' = <<>>
    /\ char_position' = 0
    /\ lines' = <<>>
    /\ UNCHANGED <<headline, highlight>>
    /\ UNCHANGED <<formato, for_usar, frm_index, base_w, base_h, default_logo, ret>>
    /\ UNCHANGED <<videoVars, otherVars>>

\* lines 322-403: the boxes of the wrapped lines, then ret[frm] = img
LayoutBoxes ==
    /\ cpc = "text"
    /\ pc = "done"
    /\ images' = [images EXCEPT ![img].marks =
                     @ \o DrawBoxes(lines, StartY(height, lines), bar_width, available_width)]
    /\ ret' = [f \in DOMAIN ret \cup {for_usar[frm_index]} |->
                  IF f = for_usar[frm_index] THEN img ELSE ret[f]]
    /\ frm_index' = frm_index + 1
    /\ cpc' = "variant"
    /\ UNCHANGED <<formato, for_usar, base_w, base_h, logo_image, default_logo, img,
                   width, height, bar_width>>
    /\ UNCHANGED <<textVars, videoVars, otherVars>>

\* return ret
ReturnVariants ==
    /\ cpc = "variant"
    /\ frm_index > Len(for_usar)
    /\ cpc' = "returned"
    /\ UNCHANGED <<formato, for_usar, frm_index, base_w, base_h, logo_image, default_logo,
                   images, img, width, height, bar_width, ret>>
    /\ UNCHANGED <<textVars, videoVars, otherVars>>

CompositeNext ==
    \/ SelectFormats
    \/ PrepareVariant
    \/ BuildMask
    \/ WrapWord
    \/ WrapFlush
    \/ LayoutBoxes
    \/ ReturnVariants

----------------------------------------------------------------------------
(* Exact rational arithmetic for the float computations of the video engine *)

Abs(x) == IF x < 0 THEN -x ELSE x

RECURSIVE GCD(_, _)
GCD(a, b) == IF b = 0 THEN a ELSE GCD(b, a % b)

\* n / d in lowest terms, d > 0
Rat(n, d) ==
    LET g == GCD(Abs(n), Abs(d))
        sgn == IF d < 0 THEN -1 ELSE 1
    IN  [n |-> sgn * (n \div g), d |-> sgn * (d \div g)]

RInt(k) == [n |-> k, d |-> 1]
RAdd(a, b) == Rat(a.n * b.d + b.n * a.d, a.d * b.d)
RSub(a, b) == Rat(a.n * b.d - b.n * a.d, a.d * b.d)
RMul(a, b) == Rat(a.n * b.n, a.d * b.d)
RDiv(a, b) == Rat(a.n * b.d, a.d * b.n)
RLe(a, b) == a.n * b.d <= b.n * a.d
RLt(a, b) == a.n * b.d < b.n * a.d

\* int(x) for x >= 0
RFloor(a) == a.n \div a.d

\* math.ceil (a mutation of the frame count)
RCeil(a) == -((-a.n) \div a.d)

----------------------------------------------------------------------------
(* Bounds and inputs of the video model *)

MaxFps == 3                \* frames per second explored: 1..MaxFps
MaxDurationHalves == 4     \* durations explored: 0.5 s steps up to this many halves

ValidDirections ==
    {"left-to-right", "right-to-left", "top-to-bottom", "bottom-to-top",
     "diagonal-tl-br", "diagonal-tr-bl", "zoom-in", "zoom-out"}

\* strings outside the set; the second contains "diagonal"
UnknownDirections == {"spin", "diagonal-bl-tr"}

Durations == {Rat(k, 2) : k \in 1..MaxDurationHalves}

NoProbe == [none |-> TRUE, val |-> RInt(0)]

\* get_audio_duration: None, 0.0 or 2.5 seconds
AudioProbes == {NoProbe, [none |-> FALSE, val |-> RInt(0)], [none |-> FALSE, val |-> Rat(5, 2)]}

\* <<out_w, out_h>>
OutSizes == {<<4, 4>>, <<12, 15>>, <<19, 16>>, <<20, 24>>, <<25, 20>>}

\* zoom_start / zoom_end in tenths
ZoomTenths == {5, 10, 15}

\* time fractions handed to the transform harness
\* <<headline, highlight>> of the video requests
VideoTexts == { <<(<<>>), <<>>>>, <<(<<"a", " ", "b">>), <<"b">>>> }

TimeFractions == {Rat(k, 4) : k \in 0..4}

----------------------------------------------------------------------------
(* The pan-and-scan engine *)

smoothstep(x) == RMul(RMul(x, x), RSub(RInt(3), RMul(RInt(2), x)))

\* `"diagonal" in direction`
NamesDiagonal(dir) == dir \in {"diagonal-tl-br", "diagonal-tr-bl", "diagonal-bl-tr"}

\* margin_w, in percent
MarginW(dir) ==
    IF dir \in {"left-to-right", "right-to-left"} THEN 125
    ELSE IF dir \in {"top-to-bottom", "bottom-to-top"} THEN 100
    ELSE IF NamesDiagonal(dir) THEN 120
    ELSE 115

\* margin_h, in percent
MarginH(dir) ==
    IF dir \in {"left-to-right", "right-to-left"} THEN 100
    ELSE IF dir \in {"top-to-bottom", "bottom-to-top"} THEN 125
    ELSE IF NamesDiagonal(dir) THEN 120
    ELSE 115

\* the shape <<w, h>> of resize_cover(img, target_w, target_h) for an image of w x h
resize_cover(w, h, target_w, target_h) ==
    LET sw == Rat(target_w, w)
        sh == Rat(target_h, h)
        scale == IF RLe(sh, sw) THEN sw ELSE sh
        new_w == RFloor(RMul(RInt(w), scale))
        new_h == RFloor(RMul(RInt(h), scale))
        x == (new_w - target_w) \div 2
        y == (new_h - target_h) \div 2
        Clip(lo, hi, n) == (IF hi < n THEN hi ELSE n) - (IF lo < n THEN lo ELSE n)
    IN  <<Clip(x, x + target_w, new_w), Clip(y, y + target_h, new_h)>>

\* the whole slack as pan range (a mutation of MaxPan)
MaxPanFullSlack(full, out) == Rat(full - out, 2)

\* (W - out_w) / 2.0 * 0.7
MaxPan(full, out) == Rat(7 * (full - out), 20)

\* base_cov, its centre and the pan ranges; the base image has the output's size
Cover(dir, ow, oh) ==
    LET shape == resize_cover(ow, oh, (ow * MarginW(dir)) \div 100, (oh * MarginH(dir)) \div 100)
    IN  [W |-> shape[1], H |-> shape[2],
         cx |-> Rat(shape[1], 2), cy |-> Rat(shape[2], 2),
         max_pan_x |-> MaxPan(shape[1], ow), max_pan_y |-> MaxPan(shape[2], oh)]

\* math.ceil(duration * fps) (a mutation of TotalFrames)
TotalFramesCeil(dur, rate) == RCeil(RMul(dur, RInt(rate)))

\* int(duration * fps)
TotalFrames(dur, rate) == RFloor(RMul(dur, RInt(rate)))

\* t = frame_num / fps ; p = t / duration
TimeFraction(num, rate, dur) == RDiv(Rat(num, rate), dur)

\* -max_pan + (2 * max_pan * p)
PanForward(max_pan, p) == RAdd(RSub(RInt(0), max_pan), RMul(RMul(RInt(2), max_pan), p))

\* max_pan - (2 * max_pan * p)
PanBackward(max_pan, p) == RSub(max_pan, RMul(RMul(RInt(2), max_pan), p))

\* tx with right-to-left panning like left-to-right (a mutation of PanX)
PanXOneWay(dir, p, max_pan_x) ==
    IF dir \in {"left-to-right", "right-to-left", "diagonal-tl-br"} THEN PanForward(max_pan_x, p)
    ELSE IF dir = "diagonal-tr-bl" THEN PanBackward(max_pan_x, p)
    ELSE RInt(0)

\* tx
PanX(dir, p, max_pan_x) ==
    IF dir \in {"left-to-right", "diagonal-tl-br"} THEN PanForward(max_pan_x, p)
    ELSE IF dir \in {"right-to-left", "diagonal-tr-bl"} THEN PanBackward(max_pan_x, p)
    ELSE RInt(0)

\* ty
PanY(dir, p, max_pan_y) ==
    IF dir \in {"top-to-bottom", "diagonal-tl-br", "diagonal-tr-bl"} THEN PanForward(max_pan_y, p)
    ELSE IF dir = "bottom-to-top" THEN PanBackward(max_pan_y, p)
    ELSE RInt(0)

\* zoom without the override of zoom-in / zoom-out (a mutation of FrameZoom)
FrameZoomNoOverride(dir, p, zs, ze) == RAdd(zs, RMul(RSub(ze, zs), p))

\* zoom: zoom_start + (zoom_end - zoom_start) * p, overridden for zoom-in and zoom-out
FrameZoom(dir, p, zs, ze) ==
    IF dir = "zoom-in" THEN RAdd(RInt(1), RMul(Rat(2, 10), p))
    ELSE IF dir = "zoom-out" THEN RSub(Rat(12, 10), RMul(Rat(2, 10), p))
    ELSE RAdd(zs, RMul(RSub(ze, zs), p))

\* rows 0 and 1 of A for angle 0: x_dst = a * x_src + bx, y_dst = a * y_src + by
make_affine_matrix(tx, ty, zoom, cx, cy) ==
    [a |-> zoom,
     bx |-> RAdd(RMul(zoom, RSub(RInt(0), cx)), RAdd(cx, tx)),
     by |-> RAdd(RMul(zoom, RSub(RInt(0), cy)), RAdd(cy, ty))]

\* the body of the frame loop for the raw time fraction p_raw
FrameAt(dir, p_raw, ease, zs, ze, cov) ==
    LET p == IF ease THEN smoothstep(p_raw) ELSE p_raw
        tx == PanX(dir, p, cov.max_pan_x)
        ty == PanY(dir, p, cov.max_pan_y)
        zoom == FrameZoom(dir, p, Rat(zs, 10), Rat(ze, 10))
    IN  [p |-> p, tx |-> tx, ty |-> ty, zoom |-> zoom,
         M |-> make_affine_matrix(tx, ty, zoom, cov.cx, cov.cy)]

\* cv2.warpAffine without WARP_INVERSE_MAP: pixel x of the output samples the
\* source where M maps onto x
SourceX(M, x) == RDiv(RSub(RInt(x), M.bx), M.a)

SourceY(M, y) == RDiv(RSub(RInt(y), M.by), M.a)

\* the columns kept by the centre crop: x0 .. x0 + out_w - 1
CropColumns(cov, ow) == LET x0 == (cov.W - ow) \div 2 IN x0..(x0 + ow - 1)

\* the rows kept by the centre crop: y0 .. y0 + out_h - 1
CropRows(cov, oh) == LET y0 == (cov.H - oh) \div 2 IN y0..(y0 + oh - 1)

\* `if audio_duration:`
Truthy(probe) == ~probe.none /\ probe.val.n # 0

\* the duration argument kept although the audio was probed (a mutation of
\* AdjustedDuration)
AdjustedDurationIgnoringAudio(has_audio, probe, dur) == dur

\* if audio_path: audio_duration = get_audio_duration(audio_path);
\* if audio_duration: duration = audio_duration
AdjustedDuration(has_audio, probe, dur) ==
    IF has_audio /\ Truthy(probe) THEN probe.val ELSE dur

NoCover == Cover("zoom-in", 1, 1)

\* the nested wrap_text_with_highlights of create_text_overlay: one pass of
\* `for word in words` over the state (words, highlights, position, lines)
WrapStep(text, mask, limit, st, word) ==
    LET word_start == WordStart(text, word, st.char_position)
        word_end == word_start + Len(word)
        word_highlight_chars == WordHighlights(mask, word_start, word_end)
        candidate_text ==
            IF st.words # <<>> THEN Join(Append(st.words, word)) ELSE word
        candidate_highlights ==
            IF st.words # <<>>
            THEN st.highlights \o <<FALSE>> \o word_highlight_chars
            ELSE word_highlight_chars
        candidate_width == calculate_real_width(candidate_text, candidate_highlights)
    IN  IF Fits(candidate_width, limit)
        THEN [words |-> Append(st.words, word),
              highlights |-> ExtendHighlights(st.highlights, word_highlight_chars),
              char_position |-> word_end,
              lines |-> st.lines]
        ELSE [words |-> StartLine(word),
              highlights |-> word_highlight_chars,
              char_position |-> word_end,
              lines |-> EmitLine(st.lines, st.words, st.highlights)]

RECURSIVE WrapFold(_, _, _, _, _)
WrapFold(text, mask, limit, ws, st) ==
    IF ws = <<>> THEN st
    ELSE WrapFold(text, mask, limit, Tail(ws), WrapStep(text, mask, limit, st, ws[1]))

wrap_text_with_highlights(text, mask, limit) ==
    LET st == WrapFold(text, mask, limit, Split(text),
                       [words |-> <<>>, highlights |-> <<>>, char_position |-> 0,
                        lines |-> <<>>])
    IN  EmitLine(st.lines, st.words, st.highlights)

\* the boxes of create_text_overlay, drawn on the overlay itself: the text
\* starts at x + padding_x
RECURSIVE OverlayBoxes(_, _, _, _)
OverlayBoxes(ls, current_y, bar, avail) ==
    IF ls = <<>> THEN <<>>
    ELSE LET line_text == ls[1][1]
             line_highlights == ls[1][2]
             text_w == calculate_real_width(line_text, line_highlights)
             text_h == TextHeight(line_text)
             box_w == text_w + 2 * padding_x
             box_h == text_h + 2 * padding_y
             x == bar + (avail - box_w) \div 2
             y == current_y
         IN  <<Mark("box", x, y, box_w, box_h,
                    DrawChars(line_text, line_highlights, 0, x + padding_x))>>
             \o OverlayBoxes(Tail(ls), NextY(current_y, box_h), bar, avail)

\* if not headline: return np.array(overlay)
OverlayIsBlank(head) == head = <<>>

\* create_text_overlay(out_w, out_h, headline, highlight); `found` tells
\* whether one of the default logo paths can be opened
create_text_overlay(w, h, head, hl, found) ==
    IF OverlayIsBlank(head) THEN Bitmap(w, h, <<>>)
    ELSE LET bar == IF w > h THEN (w * 7) \div 100 ELSE (w * 5) \div 100
             avail == IF w > h THEN w - bar - 20 ELSE w - bar - 10
             mask == BuildHighlightMask(head, hl)
             wrapped_lines == wrap_text_with_highlights(head, mask, WrapBudget(avail))
         IN  [Bitmap(w, h, <<>>) EXCEPT !.marks =
                 <<WatermarkMark(bar, h)>>
                 \o (IF found THEN <<LogoMark("default", w)>> ELSE <<>>)
                 \o OverlayBoxes(wrapped_lines, StartY(h, wrapped_lines), bar, avail)]

\* highlight_color and text_color of create_text_overlay, as (R, G, B)
ColorValue(name) == IF name = "highlight_color" THEN <<0, 64, 145>> ELSE <<0, 0, 0>>

\* the colour of the photograph, as (R, G, B)
BackgroundRGB == <<200, 100, 50>>

\* load_image_cv2: cv2.cvtColor(img_rgb, cv2.COLOR_RGB2BGR)
RGB2BGR(rgb) == <<rgb[3], rgb[2], rgb[1]>>

\* the overlay pixels looked at: the core of every glyph (drawn opaque in its
\* colour) and one pixel that nothing was drawn on, as (R, G, B, A)
OverlaySamples(overlay) ==
    {<<0, 0, 0, 0>>}
    \cup UNION {{ColorValue(overlay.marks[k].glyphs[j].color) \o <<255>> :
                    j \in 1..Len(overlay.marks[k].glyphs)} : k \in 1..Len(overlay.marks)}

\* apply_overlay on one pixel: alpha = overlay[3] / 255.0,
\* base * (1 - alpha) + overlay[:3] * alpha channel by channel, astype(uint8)
apply_overlay(base, overlay) ==
    [c \in 1..3 |-> (base[c] * (255 - overlay[4]) + overlay[c] * overlay[4]) \div 255]

\* frame_rgb = frame[:, :, ::-1]
ReverseChannels(pixel) == <<pixel[3], pixel[2], pixel[1]>>

\* the pixels of one encoded frame under each overlay sample: the warped
\* background is the BGR array of the photograph
FramePixels(overlay) ==
    [sample \in OverlaySamples(overlay) |->
        ReverseChannels(apply_overlay(RGB2BGR(BackgroundRGB), sample))]

\* the overlay emptied by the compositing (a mutation of OverlayAfterApply)
OverlayAfterApplyCleared(overlay) == [overlay EXCEPT !.marks = <<>>]

\* apply_overlay(base, overlay) builds a new array from base and overlay and
\* writes to neither: the overlay after the call
OverlayAfterApply(overlay) == overlay

\* str.replace(old, new): every occurrence, left to right
RECURSIVE Replace(_, _, _)
Replace(str, old, new) ==
    IF str = <<>> THEN <<>>
    ELSE IF Len(old) <= Len(str) /\ SubSeq(str, 1, Len(old)) = old
         THEN new \o Replace(SubSeq(str, Len(old) + 1, Len(str)), old, new)
         ELSE <<str[1]>> \o Replace(Tail(str), old, new)

\* temp_video_path = output_path.replace('.mp4', '_temp.mp4')
TempVideoPath(path) ==
    Replace(path, <<".", "m", "p", "4">>, <<"_", "t", "e", "m", "p", ".", "m", "p", "4">>)

\* the paths tried as output_path
OutputPaths == { <<"o", ".", "m", "p", "4">>, <<"o", ".", "m", "o", "v">> }

\* the audio file: the caller's file, or the endpoint's /tmp/audio_<uuid>
AudioFile == <<"a", ".", "m", "p", "3">>

NoFiles == [path \in {} |-> "none"]

WriteFile(fs, path, content) ==
    [q \in DOMAIN fs \cup {path} |-> IF q = path THEN content ELSE fs[q]]

\* os.remove(path)
RemoveFile(fs, path) == [q \in DOMAIN fs \ {path} |-> fs[q]]

\* shutil.move(src, dst); moving a file onto itself leaves it in place
MoveFile(fs, src, dst) ==
    IF src = dst THEN fs ELSE RemoveFile(WriteFile(fs, dst, fs[src]), src)

\* subprocess.run(['ffmpeg', '-y', '-i', temp_video_path, '-i', audio_path,
\* ..., output_path], check=True): ffmpeg does not write over one of its
\* inputs, it exits with an error
MuxOutcome(tool, temp_video_path, path) ==
    IF tool = "ok" /\ temp_video_path = path THEN "error" ELSE tool

\* the three branches after the silent video was written
MuxFiles(fs, tool, temp_video_path, path) ==
    IF MuxOutcome(tool, temp_video_path, path) = "ok"
    THEN RemoveFile(WriteFile(fs, path, "with_audio"), temp_video_path)
    ELSE MoveFile(fs, temp_video_path, path)

\* the endpoint: validation, audio probe, then the call of the engine
ApiRequest ==
    /\ vpc = "api"
    /\ IF \/ headline = <<>>
          \/ highlight = <<>>
          \/ RLt(duration_in, RInt(1))
          \/ RLt(RInt(30), duration_in)
          \/ direction \notin ValidDirections
       THEN /\ vpc' = "rejected"
            /\ duration' = duration
            /\ response' = "400"
            /\ files' = files
       ELSE /\ vpc' = "call"
            /\ duration' = IF audio_path /\ Truthy(audio_probe)
                           THEN audio_probe.val ELSE duration_in
            /\ response' = response
            /\ files' = IF audio_path THEN WriteFile(files, AudioFile, "audio") ELSE files
    /\ UNCHANGED <<output_path, ffmpeg, encoder_ok>>
    /\ UNCHANGED <<entry, direction, duration_in, fps, audio_path, audio_probe, out_w, out_h,
                   zoom_start, zoom_end, ease_in_out, cover, total_frames, frame_num,
                   t_frac, frames, encoded, logo_found, text_overlay, overlay_renders>>
    /\ UNCHANGED <<textVars, compVars, otherVars>>

\* make_pan_scan_video up to the frame loop
EngineSetup ==
    /\ vpc = "call"
    /\ LET adjusted == AdjustedDuration(audio_path, audio_probe, duration)
       IN  /\ duration' = adjusted
           /\ total_frames' = TotalFrames(adjusted, fps)
    /\ cover' = Cover(direction, out_w, out_h)
    /\ text_overlay' = create_text_overlay(out_w, out_h, headline, highlight, logo_found)
    /\ overlay_renders' = overlay_renders + 1
    /\ vpc' = "loop"
    /\ UNCHANGED <<entry, direction, duration_in, fps, audio_path, audio_probe, out_w, out_h,
                   zoom_start, zoom_end, ease_in_out, frame_num, t_frac, frames, encoded,
                   logo_found>>
    /\ UNCHANGED fsVars
    /\ UNCHANGED <<textVars, compVars, otherVars>>

\* one iteration of `for frame_num in range(total_frames)`
GenFrame ==
    /\ vpc = "loop"
    /\ frame_num < total_frames
    /\ frames' = Append(frames,
                        [i |-> frame_num,
                         f |-> FrameAt(direction, TimeFraction(frame_num, fps, duration),
                                       ease_in_out, zoom_start, zoom_end, cover),
                         overlay |-> text_overlay,
                         frame_rgb |-> FramePixels(text_overlay)])
    /\ text_overlay' = OverlayAfterApply(text_overlay)
    /\ frame_num' = frame_num + 1
    /\ UNCHANGED <<vpc, entry, direction, duration_in, duration, fps, audio_path, audio_probe,
                   out_w, out_h, zoom_start, zoom_end, ease_in_out, cover, total_frames,
                   t_frac, encoded, logo_found, overlay_renders>>
    /\ UNCHANGED fsVars
    /\ UNCHANGED <<textVars, compVars, otherVars>>

\* imageio.mimsave(..., frames, fps=fps, ...): to the temporary path when
\* there is audio, to output_path otherwise
Encode ==
    /\ vpc = "loop"
    /\ frame_num >= total_frames
    /\ encoded' = frames
    /\ IF ~encoder_ok
       THEN /\ vpc' = "failed"
            /\ files' = files
       ELSE IF audio_path
            THEN /\ vpc' = "mux"
                 /\ files' = WriteFile(files, TempVideoPath(output_path), "silent")
            ELSE /\ vpc' = "done"
                 /\ files' = WriteFile(files, output_path, "silent")
    /\ UNCHANGED <<entry, direction, duration_in, duration, fps, audio_path, audio_probe,
                   out_w, out_h, zoom_start, zoom_end, ease_in_out, cover, total_frames,
                   frame_num, t_frac, frames, logo_found, text_overlay, overlay_renders>>
    /\ UNCHANGED <<output_path, ffmpeg, encoder_ok, response>>
    /\ UNCHANGED <<textVars, compVars, otherVars>>

\* the mux of the silent video with the audio, and its two except branches
MuxAudio ==
    /\ vpc = "mux"
    /\ files' = MuxFiles(files, ffmpeg, TempVideoPath(output_path), output_path)
    /\ vpc' = "done"
    /\ UNCHANGED <<entry, direction, duration_in, duration, fps, audio_path, audio_probe,
                   out_w, out_h, zoom_start, zoom_end, ease_in_out, cover, total_frames,
                   frame_num, t_frac, frames, encoded, logo_found, text_overlay,
                   overlay_renders>>
    /\ UNCHANGED <<output_path, ffmpeg, encoder_ok, response>>
    /\ UNCHANGED <<textVars, compVars, otherVars>>

\* the endpoint after the engine: the temporary audio is removed and the
\* response built, or the exception of the engine becomes a 500
ApiRespond ==
    /\ entry = "api"
    /\ vpc \in {"done", "failed"}
    /\ IF vpc = "done"
       THEN /\ files' = IF audio_path /\ AudioFile \in DOMAIN files
                        THEN RemoveFile(files, AudioFile) ELSE files
            /\ response' = "200"
       ELSE /\ files' = files
            /\ response' = "500"
    /\ vpc' = "responded"
    /\ UNCHANGED <<entry, direction, duration_in, duration, fps, audio_path, audio_probe,
                   out_w, out_h, zoom_start, zoom_end, ease_in_out, cover, total_frames,
                   frame_num, t_frac, frames, encoded, logo_found, text_overlay,
                   overlay_renders>>
    /\ UNCHANGED <<output_path, ffmpeg, encoder_ok>>
    /\ UNCHANGED <<textVars, compVars, otherVars>>

VideoNext == ApiRequest \/ EngineSetup \/ GenFrame \/ Encode \/ MuxAudio \/ ApiRespond

\* the loop body applied to one time fraction of [0, 1]
TransformAt ==
    /\ vpc = "xform"
    /\ cover' = Cover(direction, out_w, out_h)
    /\ frames' = <<[i |-> 0,
                    f |-> FrameAt(direction, t_frac, ease_in_out, zoom_start, zoom_end, cover')]>>
    /\ vpc' = "xformed"
    /\ UNCHANGED <<entry, direction, duration_in, duration, fps, audio_path, audio_probe,
                   out_w, out_h, zoom_start, zoom_end, ease_in_out, total_frames,
                   frame_num, t_frac, encoded, logo_found, text_overlay,
                   overlay_renders>>
    /\ UNCHANGED fsVars
    /\ UNCHANGED <<textVars, compVars, otherVars>>

----------------------------------------------------------------------------
(* The width of one line under a font with fractional advances *)

\* longest line measured
MaxLineLen == 4

\* pixels per advance unit: draw.textlength returns fractions of a pixel
FontScales == {RInt(1), Rat(5, 4), Rat(3, 2)}

\* what the wrap engine can emit: words joined by single spaces
LineTexts ==
    {t \in StringsUpTo(MaxLineLen) :
        /\ t # <<>>
        /\ t[1] # " " /\ t[Len(t)] # " "
        /\ \A i \in 1..(Len(t) - 1) : ~(t[i] = " " /\ t[i + 1] = " ")}

\* the first k characters highlighted, the joining spaces never
LineFlags(t) == {[i \in 1..Len(t) |-> i <= k /\ t[i] # " "] : k \in 0..Len(t)}

\* draw_dummy.textlength(char, font=char_font) in pixels
textlength_px(c, font, scale) == RMul(RInt(textlength(c, font)), scale)

\* calculate_real_width in pixels
RECURSIVE calculate_real_width_px(_, _, _)
calculate_real_width_px(text_str, highlights_list, scale) ==
    IF text_str = <<>> THEN RInt(0)
    ELSE LET i == Len(text_str) - 1
             is_highlighted == i < Len(highlights_list) /\ highlights_list[i + 1]
             char_font == IF is_highlighted THEN "bold" ELSE "regular"
         IN  RAdd(calculate_real_width_px(SubSeq(text_str, 1, i), highlights_list, scale),
                  textlength_px(text_str[i + 1], char_font, scale))

\* text_x after `for char_idx, char in enumerate(line_text)`:
\* text_x += draw_dummy.textlength(char, font=font)
RECURSIVE PenEnd(_, _, _, _, _)
PenEnd(line_text, line_highlights, char_idx, text_x, scale) ==
    IF char_idx >= Len(line_text) THEN text_x
    ELSE PenEnd(line_text, line_highlights, char_idx + 1,
                RAdd(text_x, textlength_px(line_text[char_idx + 1],
                                           CharStyle(line_highlights, char_idx).font, scale)),
                scale)

\* the wrap engine measures the candidate it then accepts as the line
AcceptLine ==
    /\ mpc = "wrap"
    /\ wrap_width' = calculate_real_width_px(the_line[1], the_line[2], font_scale)
    /\ mpc' = "layout"
    /\ UNCHANGED <<font_scale, the_line, line_box>>
    /\ UNCHANGED <<textVars, videoVars, compVars, cropVars, logoVars>>

\* the layout measures the line again, sizes the box bitmap and draws the
\* characters one by one from text_x = padding_x
LayoutLine ==
    /\ mpc = "layout"
    /\ LET text_w == calculate_real_width_px(the_line[1], the_line[2], font_scale)
           box_w == RAdd(text_w, RInt(2 * padding_x))
       IN  line_box' = [text_w |-> text_w,
                        box_w |-> box_w,
                        bitmap_w |-> RFloor(box_w),
                        pen_end |-> PenEnd(the_line[1], the_line[2], 0, RInt(padding_x),
                                           font_scale)]
    /\ mpc' = "drawn"
    /\ UNCHANGED <<font_scale, the_line, wrap_width>>
    /\ UNCHANGED <<textVars, videoVars, compVars, cropVars, logoVars>>

MeasureNext == AcceptLine \/ LayoutLine

----------------------------------------------------------------------------
(* The 4:5 crop box (src/src/crop.py) *)

MaxSide == 7               \* image sides explored: 1..MaxSide

RatioW == 4

RatioH == 5

\* the ROI corners and sizes tried, outside the image included
RoiOffsets == {-1, 0, 1}

RoiSizes == 0..(MaxSide + 1)

Anchors == {"center", "top", "topleft"}

NoCropBox == <<0, 0, 0, 0>>

Min(a, b) == IF a < b THEN a ELSE b

clamp(v, lo, hi) == Max(lo, Min(v, hi))

\* int(round(x)): Python rounds a tie to the even neighbour
round_int(x) ==
    LET below == RFloor(x)
        twice == RSub(RMul(RInt(2), x), RInt(2 * below))
    IN  IF RLt(twice, RInt(1)) THEN below
        ELSE IF RLt(RInt(1), twice) THEN below + 1
        ELSE IF below % 2 = 0 THEN below ELSE below + 1

\* lines 22-26: the ROI clamped to the image
ClampedRoi(Wd, Ht, r) ==
    LET x0 == clamp(r[1], 0, Wd - 1)
        y0 == clamp(r[2], 0, Ht - 1)
    IN  <<x0, y0, clamp(r[3], 1, Wd - x0), clamp(r[4], 1, Ht - y0)>>

\* lines 28-39: the size of the box
BoxSize(rw, rh) ==
    LET target_w_from_h == RMul(Rat(RatioW, RatioH), RInt(rh))
        from_h == round_int(target_w_from_h)
        th_of(tw) == round_int(RMul(Rat(RatioH, RatioW), RInt(tw)))
    IN  IF RLe(target_w_from_h, RInt(rw))
        THEN <<from_h, th_of(from_h)>>
        ELSE IF th_of(rw) > rh
             THEN <<from_h, th_of(from_h)>>
             ELSE <<rw, th_of(rw)>>

compute_4x5_box_within(Wd, Ht, r, anc) ==
    LET c == ClampedRoi(Wd, Ht, r)
        x0 == c[1]
        y0 == c[2]
        rw == c[3]
        rh == c[4]
        size == BoxSize(rw, rh)
        tw == size[1]
        th == size[2]
    IN  IF anc = "topleft" THEN <<x0, y0, tw, th>>
        ELSE IF anc = "top" THEN <<x0 + (rw - tw) \div 2, y0, tw, th>>
        ELSE <<x0 + (rw - tw) \div 2, y0 + (rh - th) \div 2, tw, th>>

ComputeBox ==
    /\ kpc = "call"
    /\ crop_box' = compute_4x5_box_within(img_W, img_H, roi, anchor)
    /\ kpc' = "returned"
    /\ UNCHANGED <<img_W, img_H, roi, anchor>>
    /\ UNCHANGED <<textVars, videoVars, compVars, measureVars, logoVars>>

----------------------------------------------------------------------------
(* The /generate-image endpoint (src/src/generate_image_api.py) *)

\* the handler up to the call of create_composite_image; the base image is
\* supplied and readable
GenerateImage ==
    /\ ipc = "request"
    /\ IF headline = <<>> \/ highlight = <<>>
       THEN /\ ipc' = "rejected"
            /\ image_response' = "400"
            /\ UNCHANGED <<logo_data, logo_image, cpc>>
       ELSE IF logo_upload = "none" /\ logo_url = "none"
       THEN \* no logo: logo_img stays None
            /\ ipc' = "called"
            /\ image_response' = image_response
            /\ cpc' = "formats"
            /\ UNCHANGED <<logo_data, logo_image>>
       ELSE IF logo_upload # "none"
       THEN \* logo_data = await logo.read(), then Image.open
            /\ logo_data' = "upload"
            /\ IF logo_upload = "image"
               THEN /\ ipc' = "called"
                    /\ image_response' = image_response
                    /\ logo_image' = "caller"
                    /\ cpc' = "formats"
               ELSE /\ ipc' = "rejected"
                    /\ image_response' = "400"
                    /\ UNCHANGED <<logo_image, cpc>>
       ELSE \* requests.get and raise_for_status; the response is never
            \* assigned to logo_data, whose evaluation raises
            \* UnboundLocalError, caught by `except Exception`
            /\ ipc' = "rejected"
            /\ image_response' = "400"
            /\ UNCHANGED <<logo_data, logo_image, cpc>>
    /\ UNCHANGED <<logo_upload, logo_url>>
    /\ UNCHANGED <<formato, for_usar, frm_index, base_w, base_h, default_logo, images, img,
                   width, height, bar_width, ret>>
    /\ UNCHANGED <<textVars, videoVars, measureVars, cropVars>>

\* results["facebook"] and results["instagram"] are saved and the URLs returned
ImageRespond ==
    /\ ipc = "called"
    /\ cpc = "returned"
    /\ ipc' = "responded"
    /\ image_response' = IF {"facebook", "instagram"} \subseteq DOMAIN ret THEN "200" ELSE "500"
    /\ UNCHANGED <<logo_upload, logo_url, logo_data>>
    /\ UNCHANGED <<textVars, videoVars, compVars, measureVars, cropVars>>

ImageApiNext == GenerateImage \/ ImageRespond \/ CompositeNext

----------------------------------------------------------------------------
(* Initial states and specifications *)

TextIdle ==
    /\ pc = "idle"
    /\ headline = <<>>
    /\ highlight = <<>>
    /\ available_width = 0
    /\ max_width = 0
    /\ highlight_mask = <<>>
    /\ words = <<>>
    /\ word_index = 1
    /\ current_line_words = <<>>
    /\ current_line_highlights = <<>>
    /\ char_position = 0
    /\ lines = <<>>

NoOverlay == Bitmap(0, 0, <<>>)

VideoStart ==
    /\ text_overlay = NoOverlay
    /\ overlay_renders = 0
    /\ cover = NoCover
    /\ total_frames = 0
    /\ frame_num = 0
    /\ frames = <<>>
    /\ encoded = <<>>

\* the caller's audio file is there before a direct call; the endpoint
\* writes its own
FsStart ==
    /\ files = IF entry = "direct" /\ audio_path
               THEN WriteFile(NoFiles, AudioFile, "audio") ELSE NoFiles
    /\ response = "none"

\* an mp4 output, a working ffmpeg and a working encoder
FsUsual ==
    /\ output_path = <<"o", ".", "m", "p", "4">>
    /\ ffmpeg = "ok"
    /\ encoder_ok = TRUE
    /\ FsStart

VideoIdle ==
    /\ vpc = "idle"
    /\ entry = "direct"
    /\ direction = "left-to-right"
    /\ duration_in = RInt(5)
    /\ duration = RInt(5)
    /\ fps = 30
    /\ audio_path = FALSE
    /\ audio_probe = NoProbe
    /\ out_w = 1
    /\ out_h = 1
    /\ zoom_start = 10
    /\ zoom_end = 10
    /\ ease_in_out = TRUE
    /\ t_frac = RInt(0)
    /\ logo_found = FALSE
    /\ FsUsual
    /\ VideoStart

CompositeStart ==
    /\ for_usar = <<>>
    /\ frm_index = 1
    /\ images = <<>>
    /\ img = 0
    /\ width = 0
    /\ height = 0
    /\ bar_width = 0
    /\ ret = NoRet

CompositeIdle ==
    /\ cpc = "idle"
    /\ formato = <<"*">>
    /\ base_w = 0
    /\ base_h = 0
    /\ logo_image = "none"
    /\ default_logo = FALSE
    /\ CompositeStart

NoBox == [text_w |-> RInt(0), box_w |-> RInt(0), bitmap_w |-> 0, pen_end |-> RInt(0)]

MeasureIdle ==
    /\ mpc = "idle"
    /\ font_scale = RInt(1)
    /\ the_line = <<(<<>>), <<>>>>
    /\ wrap_width = RInt(0)
    /\ line_box = NoBox

CropIdle ==
    /\ kpc = "idle"
    /\ img_W = 1
    /\ img_H = 1
    /\ roi = <<0, 0, 1, 1>>
    /\ anchor = "center"
    /\ crop_box = NoCropBox

LogoIdle ==
    /\ ipc = "idle"
    /\ logo_upload = "none"
    /\ logo_url = "none"
    /\ logo_data = "unbound"
    /\ image_response = "none"

OtherIdle == MeasureIdle /\ CropIdle /\ LogoIdle

\* the layout of every short headline
Init ==
    /\ headline \in StringsUpTo(MaxLen)
    /\ highlight \in StringsUpTo(MaxHighlightLen)
    /\ available_width \in AvailWidths
    /\ TextInit
    /\ VideoIdle
    /\ CompositeIdle
    /\ OtherIdle

Next == TextNext

Spec == Init /\ [][Next]_vars

\* a video request, through the endpoint or by a direct call of the engine
InitVideo ==
    /\ \E text \in VideoTexts : headline = text[1] /\ highlight = text[2]
    /\ pc = "idle"
    /\ available_width = 0
    /\ max_width = 0
    /\ highlight_mask = <<>>
    /\ words = <<>>
    /\ word_index = 1
    /\ current_line_words = <<>>
    /\ current_line_highlights = <<>>
    /\ char_position = 0
    /\ lines = <<>>
    /\ logo_found \in BOOLEAN
    /\ entry \in {"api", "direct"}
    /\ vpc = IF entry = "api" THEN "api" ELSE "call"
    /\ direction \in ValidDirections \cup UnknownDirections
    /\ duration_in \in Durations
    /\ duration = duration_in
    /\ fps \in 1..MaxFps
    /\ audio_path \in BOOLEAN
    /\ audio_probe \in (IF audio_path THEN AudioProbes ELSE {NoProbe})
    /\ \E size \in {<<4, 4>>, <<20, 24>>} : out_w = size[1] /\ out_h = size[2]
    /\ \E z \in (IF entry = "api" THEN {<<10, 10>>} ELSE {<<10, 10>>, <<10, 15>>, <<15, 5>>}) :
          zoom_start = z[1] /\ zoom_end = z[2]
    /\ ease_in_out \in (IF entry = "api" THEN {TRUE} ELSE BOOLEAN)
    /\ t_frac = RInt(0)
    /\ FsUsual
    /\ VideoStart
    /\ CompositeIdle
    /\ OtherIdle

SpecVideo == InitVideo /\ [][VideoNext]_vars

\* the delivery of a short video: every output path, ffmpeg outcome and
\* encoder outcome; the endpoint always writes to /tmp/video_<uuid>.mp4
InitDelivery ==
    /\ \E text \in VideoTexts : headline = text[1] /\ highlight = text[2]
    /\ pc = "idle"
    /\ available_width = 0
    /\ max_width = 0
    /\ highlight_mask = <<>>
    /\ words = <<>>
    /\ word_index = 1
    /\ current_line_words = <<>>
    /\ current_line_highlights = <<>>
    /\ char_position = 0
    /\ lines = <<>>
    /\ logo_found \in BOOLEAN
    /\ entry \in {"api", "direct"}
    /\ vpc = IF entry = "api" THEN "api" ELSE "call"
    /\ direction \in {"left-to-right"} \cup UnknownDirections
    /\ duration_in \in Durations
    /\ duration = duration_in
    /\ fps = 1
    /\ audio_path \in BOOLEAN
    /\ audio_probe \in (IF audio_path THEN AudioProbes ELSE {NoProbe})
    /\ out_w = 4
    /\ out_h = 4
    /\ zoom_start = 10
    /\ zoom_end = 10
    /\ ease_in_out = TRUE
    /\ t_frac = RInt(0)
    /\ output_path \in (IF entry = "api" THEN {<<"o", ".", "m", "p", "4">>} ELSE OutputPaths)
    /\ ffmpeg \in {"ok", "error", "missing"}
    /\ encoder_ok \in BOOLEAN
    /\ FsStart
    /\ VideoStart
    /\ CompositeIdle
    /\ OtherIdle

SpecDelivery == InitDelivery /\ [][VideoNext]_vars

\* the frame transform at every time fraction of a grid over [0, 1]
InitTransform ==
    /\ TextIdle
    /\ entry = "direct"
    /\ vpc = "xform"
    /\ direction \in ValidDirections
    /\ duration_in = RInt(5)
    /\ duration = RInt(5)
    /\ fps = 30
    /\ audio_path = FALSE
    /\ audio_probe = NoProbe
    /\ \E size \in OutSizes : out_w = size[1] /\ out_h = size[2]
    /\ zoom_start \in ZoomTenths
    /\ zoom_end \in ZoomTenths
    /\ ease_in_out \in BOOLEAN
    /\ t_frac \in TimeFractions
    /\ logo_found = FALSE
    /\ FsUsual
    /\ VideoStart
    /\ CompositeIdle
    /\ OtherIdle

SpecTransform == InitTransform /\ [][TransformAt]_vars
----------------------------------------------------------------------------
(* The end-to-end scenario of the API documentation *)

ScenarioHighlightWords ==
    << <<"L", "a">>,
       <<"r", "a", "y", "u", "e", "l", "a">>,
       <<"s", "e">>,
       <<"t", "o", "m", "ó">>,
       <<"P", "a", "i", "h", "u", "a", "n", "o", ":">> >>

ScenarioRestWords ==
    << <<"c", "l", "u", "b", "e", "s">>,
       <<"d", "e">>,
       <<"l", "a">>,
       <<"c", "o", "m", "u", "n", "a">>,
       <<"y">>,
       <<"d", "e">>,
       <<"V", "i", "c", "u", "ñ", "a">>,
       <<"a", "n", "i", "m", "a", "r", "o", "n">>,
       <<"c", "u", "a", "d", "r", "a", "n", "g", "u", "l", "a", "r">> >>

ScenarioHeadline == Join(ScenarioHighlightWords \o ScenarioRestWords)

ScenarioHighlight == Join(ScenarioHighlightWords)

\* from one line of at most a word each to the whole headline on one line
ScenarioWidths == {w \in 60..240 : w % 23 # 0}

InitScenario ==
    /\ headline = ScenarioHeadline
    /\ highlight = ScenarioHighlight
    /\ available_width \in ScenarioWidths
    /\ TextInit
    /\ VideoIdle
    /\ CompositeIdle
    /\ OtherIdle

SpecScenario == InitScenario /\ [][TextNext]_vars

\* a call of create_composite_image
InitComposite ==
    /\ headline \in CompositeHeadlines
    /\ highlight \in CompositeHighlights
    /\ pc = "idle"
    /\ available_width = 0
    /\ max_width = 0
    /\ highlight_mask = <<>>
    /\ words = <<>>
    /\ word_index = 1
    /\ current_line_words = <<>>
    /\ current_line_highlights = <<>>
    /\ char_position = 0
    /\ lines = <<>>
    /\ VideoIdle
    /\ cpc = "formats"
    /\ formato \in Formatos
    /\ \E size \in BaseSizes : base_w = size[1] /\ base_h = size[2]
    /\ default_logo \in BOOLEAN
    /\ logo_image \in {"none", "caller"}
    /\ CompositeStart
    /\ OtherIdle

SpecComposite == InitComposite /\ [][CompositeNext]_vars

\* one wrapped line, measured and drawn
InitMeasure ==
    /\ TextIdle
    /\ VideoIdle
    /\ CompositeIdle
    /\ mpc = "wrap"
    /\ font_scale \in FontScales
    /\ \E t \in LineTexts : \E flags \in LineFlags(t) : the_line = <<t, flags>>
    /\ wrap_width = RInt(0)
    /\ line_box = NoBox
    /\ CropIdle
    /\ LogoIdle

SpecMeasure == InitMeasure /\ [][MeasureNext]_vars

\* a call of _compute_4x5_box_within
InitCrop ==
    /\ TextIdle
    /\ VideoIdle
    /\ CompositeIdle
    /\ MeasureIdle
    /\ LogoIdle
    /\ kpc = "call"
    /\ img_W \in 1..MaxSide
    /\ img_H \in 1..MaxSide
    /\ roi \in RoiOffsets \X RoiOffsets \X RoiSizes \X RoiSizes
    /\ anchor \in Anchors
    /\ crop_box = NoCropBox

SpecCrop == InitCrop /\ [][ComputeBox]_vars

\* a request to /generate-image with a readable base image
InitImageApi ==
    /\ headline \in CompositeHeadlines
    /\ highlight \in CompositeHighlights
    /\ pc = "idle"
    /\ available_width = 0
    /\ max_width = 0
    /\ highlight_mask = <<>>
    /\ words = <<>>
    /\ word_index = 1
    /\ current_line_words = <<>>
    /\ current_line_highlights = <<>>
    /\ char_position = 0
    /\ lines = <<>>
    /\ VideoIdle
    /\ cpc = "idle"
    /\ formato = <<"*">>
    /\ \E size \in BaseSizes : base_w = size[1] /\ base_h = size[2]
    /\ default_logo \in BOOLEAN
    /\ logo_image = "none"
    /\ CompositeStart
    /\ MeasureIdle
    /\ CropIdle
    /\ ipc = "request"
    /\ logo_upload \in {"none", "image", "garbage"}
    /\ logo_url \in {"none", "image", "garbage", "unreachable"}
    /\ logo_data = "unbound"
    /\ image_response = "none"

SpecImageApi == InitImageApi /\ [][ImageApiNext]_vars

----------------------------------------------------------------------------
(* Claims about the highlight mask and the wrap engine *)

\* text.split(" "): cut at every single space, keeping empty pieces
RECURSIVE SplitSingleFrom(_, _, _, _)
SplitSingleFrom(text, i, cur, acc) ==
    IF i > Len(text) THEN Append(acc, cur)
    ELSE IF text[i] = " "
         THEN SplitSingleFrom(text, i + 1, <<>>, Append(acc, cur))
         ELSE SplitSingleFrom(text, i + 1, Append(cur, text[i]), acc)

SplitOnSpace(text) == SplitSingleFrom(text, 1, <<>>, <<>>)

\* the words of the emitted lines, each line cut at its single spaces
RECURSIVE LineWords(_)
LineWords(ls) ==
    IF ls = <<>> THEN <<>> ELSE SplitOnSpace(ls[1][1]) \o LineWords(Tail(ls))

\* C1: once the mask is built it has one entry per headline character, and
\* when the highlight is a non-empty substring of the headline, entry i is
\* true exactly for s <= i < s + len(highlight), s the leftmost occurrence.
C1_MaskCorrect ==
    pc # "mask" =>
        /\ Len(highlight_mask) = Len(headline)
        /\ (highlight # <<>> /\ Contains(headline, highlight)) =>
              \E s \in 0..Len(headline) :
                  /\ OccursAt(headline, highlight, s)
                  /\ \A t \in 0..(s - 1) : ~OccursAt(headline, highlight, t)
                  /\ \A i \in 0..(Len(headline) - 1) :
                        highlight_mask[i + 1] <=> (s <= i /\ i < s + Len(highlight))

\* headline 'ab ab', highlight 'ab': only indices 0 and 1 are marked
C1_Witness ==
    /\ pc # "mask"
    /\ headline = <<"a", "b", " ", "a", "b">>
    /\ highlight = <<"a", "b">>
    /\ highlight_mask = <<TRUE, TRUE, FALSE, FALSE, FALSE>>

\* C2: the words of all returned lines, in line order and cut at the single
\* spaces of each line, are the whitespace-separated words of the headline
\* in their order: none split, dropped or duplicated.
C2_WordIntegrity ==
    pc = "done" => LineWords(lines) = Split(headline)

\* a headline with a run of two spaces wrapped into two lines
C2_Witness ==
    /\ pc = "done"
    /\ Len(lines) >= 2
    /\ \E i \in 1..(Len(headline) - 1) : headline[i] = " " /\ headline[i + 1] = " "

\* C3: every emitted line of two or more words has
\* measured_width * 1.15 <= max_width (both sides times 100).
C3_WidthBound ==
    \A k \in 1..Len(lines) :
        Len(SplitOnSpace(lines[k][1])) >= 2 =>
            calculate_real_width(lines[k][1], lines[k][2]) * 115 <= max_width

\* a two-word line with a bold character, closed because the third word
\* did not fit
C3_Witness ==
    /\ pc = "done"
    /\ Len(lines) >= 2
    /\ Len(SplitOnSpace(lines[1][1])) >= 2
    /\ \E j \in 1..Len(lines[1][2]) : lines[1][2][j]

\* 0-based offset in the headline of the first character of line k, for a
\* headline whose words are separated by single spaces
RECURSIVE LineOffset(_, _)
LineOffset(ls, k) == IF k = 1 THEN 0 ELSE LineOffset(ls, k - 1) + Len(ls[k - 1][1]) + 1

ScenarioWrapped ==
    /\ pc = "done"
    /\ headline = ScenarioHeadline
    /\ highlight = ScenarioHighlight
    /\ Len(lines) \in {2, 3}

----------------------------------------------------------------------------
(* Claims about the pan-and-scan engine *)

\* every pixel of the cropped frame fr is sampled inside the oversized background
Contained(fr) ==
    /\ \A x \in CropColumns(cover, out_w) :
          /\ RLe(RInt(0), SourceX(fr.M, x))
          /\ RLe(SourceX(fr.M, x), RInt(cover.W - 1))
    /\ \A y \in CropRows(cover, out_h) :
          /\ RLe(RInt(0), SourceY(fr.M, y))
          /\ RLe(SourceY(fr.M, y), RInt(cover.H - 1))

\* C5 as stated: for every direction, time fraction, output size and positive
\* zoom_start / zoom_end, every pixel of the cropped frame is sampled inside
\* the oversized background.
C5_Original == vpc = "xformed" => Contained(frames[1].f)

\* C5 amended: the same, for zoom_start >= 1 and zoom_end >= 1 and an output
\* of at least 20 pixels in width and in height.
C5_PanContainment ==
    (/\ vpc = "xformed"
     /\ zoom_start >= 10 /\ zoom_end >= 10
     /\ out_w >= 20 /\ out_h >= 20) => Contained(frames[1].f)

\* the end of a left-to-right pan, zoomed, on a 20 x 24 output
C5_Witness ==
    /\ vpc = "xformed"
    /\ direction = "left-to-right"
    /\ zoom_start = 10 /\ zoom_end = 15
    /\ out_w = 20 /\ out_h = 24
    /\ frames[1].f.p = RInt(1)
    /\ frames[1].f.tx = cover.max_pan_x
    /\ cover.max_pan_x.n > 0

\* the time fraction of frame k of n with the easing of the call
EasedFraction(k, n) == IF ease_in_out THEN smoothstep(Rat(k, n)) ELSE Rat(k, n)

\* C6: with total_frames >= 2, frame i has p = easing(i / (total_frames - 1)):
\* the first frame has p = 0 and the last frame p = 1.
C6_Original ==
    (vpc = "done" /\ total_frames >= 2) =>
        /\ \A k \in 1..Len(frames) : frames[k].f.p = EasedFraction(k - 1, total_frames - 1)
        /\ frames[1].f.p = RInt(0)
        /\ frames[Len(frames)].f.p = RInt(1)

\* C7: a call that reaches the engine with a direction outside the 8 values
\* ends in an error before any frame is generated.
C7_Original ==
    direction \notin ValidDirections => (frames = <<>> /\ vpc # "done")

CardinalDirections == {"left-to-right", "right-to-left", "top-to-bottom", "bottom-to-top"}

\* the pan of a cardinal direction along its own axis, and across it
OwnAxisPan(fr) == IF direction \in {"left-to-right", "right-to-left"} THEN fr.tx ELSE fr.ty
CrossAxisPan(fr) == IF direction \in {"left-to-right", "right-to-left"} THEN fr.ty ELSE fr.tx
OwnAxisRange == IF direction \in {"left-to-right", "right-to-left"}
                THEN cover.max_pan_x ELSE cover.max_pan_y

\* max_pan * (2p - 1), negated for the reverse directions
LinearPan(fr) ==
    LET forward == RMul(OwnAxisRange, RSub(RMul(RInt(2), fr.p), RInt(1)))
    IN  IF direction \in {"left-to-right", "top-to-bottom"}
        THEN forward ELSE RSub(RInt(0), forward)

CardinalPans(fr) ==
    /\ CrossAxisPan(fr) = RInt(0)
    /\ OwnAxisPan(fr) = LinearPan(fr)
    /\ fr.p = Rat(1, 2) => OwnAxisPan(fr) = RInt(0)
    /\ fr.p = RInt(0) =>
          OwnAxisPan(fr) = (IF direction \in {"left-to-right", "top-to-bottom"}
                            THEN RSub(RInt(0), OwnAxisRange) ELSE OwnAxisRange)
    /\ fr.p = RInt(1) =>
          OwnAxisPan(fr) = (IF direction \in {"left-to-right", "top-to-bottom"}
                            THEN OwnAxisRange ELSE RSub(RInt(0), OwnAxisRange))

\* C8 as stated: on a cardinal direction the cross-axis pan is 0, the own-axis
\* pan is linear in p between -max_pan and +max_pan, and the zoom is 1.0
\* whatever zoom_start and zoom_end are.
C8_Original ==
    (vpc = "xformed" /\ direction \in CardinalDirections) =>
        /\ CardinalPans(frames[1].f)
        /\ frames[1].f.zoom = RInt(1)

\* C8 amended: the pans as stated; the zoom is
\* zoom_start + (zoom_end - zoom_start) * p, which is 1.0 when both arguments
\* keep their default 1.0.
C8_CardinalPan ==
    (vpc = "xformed" /\ direction \in CardinalDirections) =>
        /\ CardinalPans(frames[1].f)
        /\ frames[1].f.zoom =
              RAdd(Rat(zoom_start, 10), RMul(Rat(zoom_end - zoom_start, 10), frames[1].f.p))
        /\ (zoom_start = 10 /\ zoom_end = 10) => frames[1].f.zoom = RInt(1)

\* the middle of a right-to-left pan with zoom_start 1.5 and zoom_end 0.5
C8_Witness ==
    /\ vpc = "xformed"
    /\ direction = "right-to-left"
    /\ zoom_start = 15 /\ zoom_end = 5
    /\ out_w = 20
    /\ frames[1].f.p = Rat(1, 2)
    /\ frames[1].f.tx = RInt(0)
    /\ frames[1].f.zoom = RInt(1)
    /\ cover.max_pan_x.n > 0

\* C9: zoom-in runs linearly from 1.0 at p = 0 to 1.2 at p = 1, zoom-out from
\* 1.2 to 1.0, both without pan, whatever zoom_start and zoom_end are.
C9_ZoomOverride ==
    (vpc = "xformed" /\ direction \in {"zoom-in", "zoom-out"}) =>
        LET fr == frames[1].f
            low == RInt(1)
            high == Rat(12, 10)
            rise == RMul(RSub(high, low), fr.p)
        IN  /\ fr.tx = RInt(0)
            /\ fr.ty = RInt(0)
            /\ fr.zoom = (IF direction = "zoom-in" THEN RAdd(low, rise) ELSE RSub(high, rise))
            /\ fr.p = RInt(0) => fr.zoom = (IF direction = "zoom-in" THEN low ELSE high)
            /\ fr.p = RInt(1) => fr.zoom = (IF direction = "zoom-in" THEN high ELSE low)

\* the end of a zoom-in called with zoom_start 1.5 and zoom_end 0.5
C9_Witness ==
    /\ vpc = "xformed"
    /\ direction = "zoom-in"
    /\ zoom_start = 15 /\ zoom_end = 5
    /\ frames[1].f.p = RInt(1)
    /\ frames[1].f.zoom = Rat(12, 10)

\* the duration in effect once the audio has been probed
EffectiveDuration ==
    IF audio_path /\ ~audio_probe.none /\ audio_probe.val.n > 0
    THEN audio_probe.val ELSE duration_in

\* C10: the encoder receives exactly floor(duration * fps) frames, with the
\* frame indices 0, 1, 2, ... in order, duration being the effective duration.
C10_FrameSequence ==
    vpc = "done" =>
        /\ Len(encoded) = (EffectiveDuration.n * fps) \div EffectiveDuration.d
        /\ \A k \in 1..Len(encoded) : encoded[k].i = k - 1

\* 2.5 s of audio at 3 fps on a call that asked for 1 s: 7 frames
C10_Witness ==
    /\ vpc = "done"
    /\ audio_path
    /\ audio_probe.val = Rat(5, 2)
    /\ duration_in = RInt(1)
    /\ fps = 3
    /\ Len(encoded) = 7

----------------------------------------------------------------------------
(* Wrap engine: offsets, line shape and overlong words *)

\* the 0-based offsets at which the maximal runs of non-whitespace characters
\* of the text begin, found by one pass over the characters
RECURSIVE WordStartsFrom(_, _, _)
WordStartsFrom(text, i, acc) ==
    IF i > Len(text) THEN acc
    ELSE IF text[i] \notin Whitespace /\ (i = 1 \/ text[i - 1] \in Whitespace)
         THEN WordStartsFrom(text, i + 1, Append(acc, i - 1))
         ELSE WordStartsFrom(text, i + 1, acc)

WordStarts(text) == WordStartsFrom(text, 1, <<>>)

\* the 0-based offset of the m-th piece inside its line
RECURSIVE PieceOffset(_, _)
PieceOffset(pieces, m) ==
    IF m = 1 THEN 0 ELSE PieceOffset(pieces, m - 1) + Len(pieces[m - 1]) + 1

\* the number of words on the lines before line k
WordsBefore(ls, k) == Len(LineWords(SubSeq(ls, 1, k - 1)))

\* C13: every character of every word of every returned line carries the
\* flag the headline mask holds at the character's original index, the
\* word's true offset being the start of its run of non-space characters.
C13_OffsetRecovery ==
    pc = "done" =>
        /\ Len(LineWords(lines)) = Len(WordStarts(headline))
        /\ \A k \in 1..Len(lines) :
              LET pieces == SplitOnSpace(lines[k][1])
                  g == WordsBefore(lines, k)
              IN  \A m \in 1..Len(pieces) : \A j \in 1..Len(pieces[m]) :
                      lines[k][2][PieceOffset(pieces, m) + j]
                          = highlight_mask[WordStarts(headline)[g + m] + j]

\* 'b  ab' with highlight 'b': the mask marks the first 'b' only, and the
\* 'b' of the later word 'ab', found after a run of two spaces, is not bold
C13_Witness ==
    /\ pc = "done"
    /\ headline = <<"b", " ", " ", "a", "b">>
    /\ highlight = <<"b">>
    /\ lines = << <<(<<"b", " ", "a", "b">>), <<TRUE, FALSE, FALSE, FALSE>> >> >>

\* C14: every emitted line has as many flags as characters, is made of
\* non-empty words free of whitespace joined by single spaces, and the flag
\* at every joining space is false.
C14_WrappedLine ==
    \A k \in 1..Len(lines) :
        LET text == lines[k][1]
            flags == lines[k][2]
            pieces == SplitOnSpace(text)
        IN  /\ Len(flags) = Len(text)
            /\ \A m \in 1..Len(pieces) :
                  /\ pieces[m] # <<>>
                  /\ \A j \in 1..Len(pieces[m]) : pieces[m][j] \notin Whitespace
            /\ text = Join(pieces)
            /\ \A j \in 1..Len(text) : text[j] = " " => ~flags[j]

\* 'a b' with highlight 'a ': the space of the headline is marked, the
\* joining space of the line is not
C14_Witness ==
    /\ pc = "done"
    /\ headline = <<"a", " ", "b">>
    /\ highlight_mask = <<TRUE, TRUE, FALSE>>
    /\ lines = << <<(<<"a", " ", "b">>), <<TRUE, FALSE, FALSE>> >> >>

\* a word whose measured width times 1.15 exceeds max_width
Overlong(word, flags) == calculate_real_width(word, flags) * safety_margin_pct > max_width

\* C17: the wrap returns without error with every word whole and in order,
\* and a word that is too wide by itself is the only word of its line.
C17_OverlongAlone ==
    pc = "done" =>
        /\ LineWords(lines) = words
        /\ \A k \in 1..Len(lines) :
              LET pieces == SplitOnSpace(lines[k][1])
              IN  \A m \in 1..Len(pieces) :
                      LET off == PieceOffset(pieces, m)
                      IN  Overlong(pieces[m],
                                   SubSeq(lines[k][2], off + 1, off + Len(pieces[m])))
                              => Len(pieces) = 1

\* 'a b a' at width 3: the word 'b' is too wide by itself and
\* stands alone between the lines of the words before and after it
C17_Witness ==
    /\ pc = "done"
    /\ headline = <<"a", " ", "b", " ", "a">>
    /\ available_width = 3
    /\ Len(lines) = 3
    /\ lines[2][1] = <<"b">>
    /\ Overlong(lines[2][1], lines[2][2])

----------------------------------------------------------------------------
(* Claims about the video overlay *)

\* C11: create_text_overlay is called once, before any frame exists, and the
\* overlay composited onto every frame, and the overlay left after the last
\* frame, is the bitmap that call drew.
C11_StaticOverlay ==
    /\ overlay_renders <= 1
    /\ frames # <<>> => overlay_renders = 1
    /\ vpc \in {"loop", "done"} =>
          /\ overlay_renders = 1
          /\ text_overlay = create_text_overlay(out_w, out_h, headline, highlight, logo_found)
    /\ \A k \in 1..Len(frames) :
          frames[k].overlay
              = create_text_overlay(out_w, out_h, headline, highlight, logo_found)

\* a video of several frames with a headline box on its overlay
C11_Witness ==
    /\ vpc = "done"
    /\ Len(encoded) >= 3
    /\ overlay_renders = 1
    /\ \E k \in 1..Len(text_overlay.marks) : text_overlay.marks[k].kind = "box"
    /\ encoded[1].overlay = text_overlay
    /\ encoded[Len(encoded)].overlay = text_overlay

HasMark(bitmap, kind) == \E k \in 1..Len(bitmap.marks) : bitmap.marks[k].kind = kind

\* C12 as stated: with an empty headline the image variants and the video
\* overlay carry the watermark strip, the logo when there is one, and no box.
C12_Original ==
    headline = <<>> =>
        /\ cpc = "returned" =>
              \A f \in DOMAIN ret :
                  /\ HasMark(images[ret[f]], "watermark")
                  /\ logo_image = "caller" => HasMark(images[ret[f]], "logo")
                  /\ ~HasMark(images[ret[f]], "box")
        /\ vpc \in {"loop", "done"} =>
              /\ HasMark(text_overlay, "watermark")
              /\ logo_found => HasMark(text_overlay, "logo")
              /\ ~HasMark(text_overlay, "box")

----------------------------------------------------------------------------
(* Claims about the boxes and the image variants *)

\* the layout of the current variant has been drawn
Drawn == cpc \in {"variant", "returned"} /\ pc = "done"

\* the marks of the last layout pass on the current bitmap, one per line
LastBoxes ==
    LET marks == images[img].marks
    IN  SubSeq(marks, Len(marks) - Len(lines) + 1, Len(marks))

\* the characters drawn into a box, in drawing order
GlyphChars(box) == [k \in 1..Len(box.glyphs) |-> box.glyphs[k].char]

\* C15: the boxes of a layout pass are one per wrapped line in the order of
\* the lines, and each box starts 8 pixels below the bottom of the box
\* before it, so consecutive boxes never overlap.
C15_BoxStacking ==
    Drawn =>
        /\ Len(images[img].marks) >= Len(lines)
        /\ \A i \in 1..Len(lines) :
              /\ LastBoxes[i].kind = "box"
              /\ GlyphChars(LastBoxes[i]) = lines[i][1]
        /\ \A i \in 1..(Len(lines) - 1) :
              /\ LastBoxes[i + 1].y = LastBoxes[i].y + LastBoxes[i].h + 8
              /\ LastBoxes[i + 1].y >= LastBoxes[i].y + LastBoxes[i].h

\* three lines, the middle one taller than the first
C15_Witness ==
    /\ Drawn
    /\ Len(lines) = 3
    /\ LastBoxes[2].h > LastBoxes[1].h
    /\ LastBoxes[3].y = LastBoxes[2].y + LastBoxes[2].h + 8

RECURSIVE SumHeights(_)
SumHeights(boxes) == IF boxes = <<>> THEN 0 ELSE boxes[1].h + SumHeights(Tail(boxes))

\* C16: with at least one line the first box starts at
\* height - total_stack_height - 20, where total_stack_height is the sum of
\* the box heights plus 8 per gap, and the last box ends 20 pixels above the
\* bottom edge.
C16_BottomAnchor ==
    (Drawn /\ Len(lines) >= 1) =>
        LET n == Len(lines)
            total_stack_height == SumHeights(LastBoxes) + 8 * (n - 1)
        IN  /\ LastBoxes[1].y = images[img].height - total_stack_height - 20
            /\ LastBoxes[n].y + LastBoxes[n].h = images[img].height - 20

\* two lines of different heights on a canvas of the base size
C16_Witness ==
    /\ Drawn
    /\ Len(lines) = 2
    /\ LastBoxes[1].h # LastBoxes[2].h
    /\ LastBoxes[2].y + LastBoxes[2].h = height - 20

\* every glyph of every box of every bitmap of the call
AllGlyphs ==
    {g \in UNION {UNION {{b.marks[k].glyphs[j] : j \in 1..Len(b.marks[k].glyphs)} :
                         k \in 1..Len(b.marks)} :
                  b \in {images[i] : i \in 1..Len(images)}} : TRUE}

C19_Original ==
    cpc = "returned" =>
        /\ DOMAIN ret = {for_usar[i] : i \in 1..Len(for_usar)}
        /\ "facebook" \in DOMAIN ret =>
              /\ images[ret["facebook"]].width = base_w
              /\ images[ret["facebook"]].height = base_h
        /\ "instagram" \in DOMAIN ret =>
              /\ images[ret["instagram"]].width = 1080
              /\ images[ret["instagram"]].height = 1350

\* C20 as stated: when a logo was passed or the default one could be loaded,
\* every returned variant shows the logo at (width - logo_w - 10, 10) with
\* logo_w = int(width * 0.10) and the height in proportion.
C20_Original ==
    (cpc = "returned" /\ logo_image # "none") =>
        \A f \in DOMAIN ret :
            LET bitmap == images[ret[f]]
                logo_w == (bitmap.width * 10) \div 100
                logo_h == (logo_w * LogoSize(logo_image)[2]) \div LogoSize(logo_image)[1]
            IN  \E k \in 1..Len(bitmap.marks) :
                    /\ bitmap.marks[k].kind = "logo"
                    /\ bitmap.marks[k].x = bitmap.width - logo_w - 10
                    /\ bitmap.marks[k].y = 10
                    /\ bitmap.marks[k].w = logo_w
                    /\ bitmap.marks[k].h = logo_h

----------------------------------------------------------------------------
(* Claims about the wrap budget and the width accounting *)

\* C21 as stated: the wrap budget is 0.85 of the available width for the
\* facebook format and 0.90 of it for the instagram format (times 100).
C21_Original ==
    (cpc = "text" /\ pc \in {"wrap", "done"}) =>
        max_width = available_width * (IF for_usar[frm_index] = "instagram" THEN 90 ELSE 85)

----------------------------------------------------------------------------
(* Claims about the audio track and the frame colours *)

\* C22: in the frame loop and after it, a call with an audio file whose
\* probe returned d > 0 runs with duration d and floor(d * fps) frames
\* whatever duration was asked for, and a call whose probe returned None
\* runs with the duration asked for.
C22_AudioDuration ==
    (vpc \in {"loop", "done"} /\ audio_path) =>
        /\ (~audio_probe.none /\ audio_probe.val.n > 0) =>
              /\ duration = audio_probe.val
              /\ total_frames = (audio_probe.val.n * fps) \div audio_probe.val.d
        /\ audio_probe.none =>
              /\ duration = duration_in
              /\ total_frames = (duration_in.n * fps) \div duration_in.d
        /\ vpc = "done" => Len(encoded) = total_frames

\* a direct call asking for 1 s with 2.5 s of audio at 2 fps: 5 frames
C22_Witness ==
    /\ vpc = "done"
    /\ entry = "direct"
    /\ audio_path
    /\ audio_probe.val = Rat(5, 2)
    /\ duration_in = RInt(1)
    /\ duration = Rat(5, 2)
    /\ fps = 2
    /\ Len(encoded) = 5

\* C23 as stated: in every encoded frame a pixel under an opaque overlay
\* pixel (r, g, b, 255) is (r, g, b) in RGB order, and a pixel under a
\* transparent overlay pixel has the colour of the background.
C23_Original ==
    \A k \in 1..Len(encoded) : \A sample \in DOMAIN encoded[k].frame_rgb :
        /\ sample[4] = 255 =>
              encoded[k].frame_rgb[sample] = <<sample[1], sample[2], sample[3]>>
        /\ sample[4] = 0 => encoded[k].frame_rgb[sample] = BackgroundRGB

FirstWord(line) == SplitOnSpace(line[1])[1]
FirstWordFlags(line) == SubSeq(line[2], 1, Len(FirstWord(line)))

\* C25: for every two consecutive emitted lines, the earlier line extended
\* by a space and the first word of the later line, with that word's flags,
\* measures more than max_width after the 1.15 margin.
C25_GreedyMaximal ==
    \A k \in 1..(Len(lines) - 1) :
        calculate_real_width(lines[k][1] \o <<" ">> \o FirstWord(lines[k + 1]),
                             lines[k][2] \o <<FALSE>> \o FirstWordFlags(lines[k + 1]))
            * 115 > max_width

\* a line of two words closed by a third word that did not fit
C25_Witness ==
    /\ pc = "done"
    /\ Len(lines) >= 2
    /\ Len(SplitOnSpace(lines[1][1])) >= 2
    /\ calculate_real_width(lines[1][1], lines[1][2]) * 115 <= max_width

----------------------------------------------------------------------------
(* Claims about the variants of one call *)

\* the number of marks of a kind on a bitmap
CountMarks(bitmap, kind) ==
    Cardinality({k \in 1..Len(bitmap.marks) : bitmap.marks[k].kind = kind})

\* C26 as stated: when a call returns both formats, the instagram bitmap was
\* cropped from pixels nothing had been drawn on, it is another bitmap than
\* the facebook one, and the facebook bitmap carries the one watermark of
\* its own rendering.
C26_Original ==
    (cpc = "returned" /\ DOMAIN ret = {"facebook", "instagram"}) =>
        /\ images[ret["instagram"]].inherited = <<>>
        /\ ret["facebook"] # ret["instagram"]
        /\ CountMarks(images[ret["facebook"]], "watermark") = 1

\* C27: after a run with audio the video is at output_path and nothing
\* is left at the temporary path output_path.replace('.mp4', '_temp.mp4'),
\* whatever the output path and whatever ffmpeg did
C27_Original ==
    (vpc = "done" /\ audio_path) =>
        /\ output_path \in DOMAIN files
        /\ TempVideoPath(output_path) \notin DOMAIN files

\* C30: when the endpoint has finished a request that uploaded audio, with
\* a success or with an HTTP error raised after the file was written, the
\* temporary audio file no longer exists
C30_Original ==
    (entry = "api" /\ audio_path /\ response \in {"200", "500"}) =>
        AudioFile \notin DOMAIN files

----------------------------------------------------------------------------
(* Claims about the crop box and the logo of the image endpoint *)

\* C28: for every image size, ROI and anchor the box returned by
\* _compute_4x5_box_within lies inside the clamped ROI:
\* x0 <= cx, cx + tw <= x0 + rw, y0 <= cy, cy + th <= y0 + rh
C28_Original ==
    kpc = "returned" =>
        LET c == ClampedRoi(img_W, img_H, roi)
        IN  /\ c[1] <= crop_box[1]
            /\ crop_box[1] + crop_box[3] <= c[1] + c[3]
            /\ c[2] <= crop_box[2]
            /\ crop_box[2] + crop_box[4] <= c[2] + c[4]

\* C29: a request with logo_url alone, whose download succeeds with a valid
\* image, is not rejected, and the downloaded image is the logo passed to
\* create_composite_image
C29_Original ==
    (ipc # "request" /\ logo_upload = "none" /\ logo_url = "image") =>
        /\ image_response # "400"
        /\ logo_data = "download"
        /\ logo_image = "caller"

====
